---- MODULE Spec2Model ----
(***************************************************************************)
(* Model of homework.py: the startup credential check and the poll loop of *)
(* main, with get_api_answer, check_response, parse_status and             *)
(* send_message as operators computed as the code computes them.           *)
(*                                                                         *)
(* Python values.  A JSON object (dict) is [dict |-> r] where r is a       *)
(* record whose DOMAIN is the set of keys that are present; a JSON array   *)
(* is [list |-> seq], a JSON string [str |-> s], a JSON number [int |-> n],*)
(* JSON null / Python None is [none |-> TRUE].  Texts built with format    *)
(* strings are records naming the format and the substituted values.       *)
(***************************************************************************)
EXTENDS Integers, Sequences, FiniteSets, TLC

VARIABLES
    env,        \* os.getenv results for the three credentials (lines 19-21)
    pc,         \* position of main
    bot,        \* TRUE once telegram.Bot(...) has been constructed (line 151)
    timestamp,  \* the polling cursor (line 152)
    old_status, \* the last notified message (line 153)
    error,      \* the exception in flight out of the try body, or NoError
    cycle,      \* number of loop iterations begun
    limit,      \* the number of loop iterations the model follows
    critical,   \* names for which check_tokens logged a critical entry
    cur,        \* trace of the current loop iteration
    prev,       \* trace of the previous loop iteration
    last_sent,  \* the most recent call of bot.send_message: its text, its outcome
    history,    \* the texts of all calls of bot.send_message, where kept
    call        \* a function applied on its own: its name, argument and result

vars == <<env, pc, bot, timestamp, old_status, error, cycle, limit, critical, cur, prev,
          last_sent, history, call>>

(***************************************************************************)
(* Bounds                                                                  *)
(***************************************************************************)
MaxCycles == 3
MaxStartupCycles == 1
MaxDate == 2
MaxLen == 2

(***************************************************************************)
(* Program constants.  The texts of the source are Cyrillic; each is       *)
(* rendered here by an ASCII text, distinct texts by distinct texts.       *)
(***************************************************************************)
RETRY_PERIOD == 600

HTTP_OK == 200

HOMEWORK_VERDICTS ==
    [approved  |-> "VERDICT approved: checked, the reviewer liked everything",
     reviewing |-> "VERDICT reviewing: taken for review by the reviewer",
     rejected  |-> "VERDICT rejected: checked, the reviewer has remarks"]

TokenNames == <<"PRACTICUM_TOKEN", "TELEGRAM_TOKEN", "TELEGRAM_CHAT_ID">>

(***************************************************************************)
(* Python values                                                           *)
(***************************************************************************)
None == [none |-> TRUE]

IsDict(v) == "dict" \in DOMAIN v
IsList(v) == "list" \in DOMAIN v
IsStr(v) == "str" \in DOMAIN v

\* A dict key must be hashable: a list or a dict is not.
Hashable(v) == ~IsList(v) /\ ~IsDict(v)

\* dict.get(key) and dict.get(key, default)
DictGet(d, key, default) == IF key \in DOMAIN d.dict THEN d.dict[key] ELSE default

(***************************************************************************)
(* Exceptions: the class of the exception with the classes it is an        *)
(* instance of (what an except clause matches), and str(error).            *)
(***************************************************************************)
NoError == [cls |-> "NoError", isa |-> {}, text |-> [fmt |-> ""]]

Exc(cls, bases, text) == [cls |-> cls, isa |-> {cls, "Exception"} \cup bases, text |-> text]

IsInstance(e, cls) == cls \in e.isa

Ok(v) == [raised |-> FALSE, error |-> NoError, value |-> v]
Raise(e) == [raised |-> TRUE, error |-> e, value |-> None]

(***************************************************************************)
(* check_tokens (lines 57-75): the names whose value is None, in the       *)
(* order of tokens_info; a critical entry is logged for each.              *)
(***************************************************************************)
\* Variant: the chat identifier is left out of tokens_info.
check_tokens_without_chat_id(e) ==
    SelectSeq(TokenNames, LAMBDA name : e[name] = None /\ name # "TELEGRAM_CHAT_ID")

check_tokens(e) == SelectSeq(TokenNames, LAMBDA name : e[name] = None)

Range(s) == {s[i] : i \in DOMAIN s}

(***************************************************************************)
(* telegram.Bot(token=...) (line 151) validates the token and raises       *)
(* InvalidToken for an empty one.                                          *)
(***************************************************************************)
BotConstructorRaises(token) == token.str = ""

(***************************************************************************)
(* send_message (lines 78-87).  tg is what bot.send_message does: "ok" or  *)
(* "TelegramError", the failure its documentation names.  The result tells *)
(* whether send_message raised, whether the text reached the chat, and     *)
(* what it logged at error level.                                          *)
(***************************************************************************)
\* Variant: the TelegramError is logged and raised again.
send_message_reraising(message, tg) ==
    IF tg = "TelegramError"
    THEN [raised |-> TRUE,
          error |-> [cls |-> "TelegramError", isa |-> {"TelegramError", "Exception"},
                     text |-> [fmt |-> "TelegramError"]],
          delivered |-> FALSE,
          logged |-> <<[level |-> "error",
                        text |-> [fmt |-> "SEND_MESSAGE_ERROR", message |-> message]]>>]
    ELSE [raised |-> FALSE,
          error |-> [cls |-> "NoError", isa |-> {}, text |-> [fmt |-> ""]],
          delivered |-> TRUE, logged |-> <<>>]

send_message(message, tg) ==
    IF tg = "TelegramError"
    THEN [raised |-> FALSE, error |-> NoError, delivered |-> FALSE,
          logged |-> <<[level |-> "error",
                        text |-> [fmt |-> "SEND_MESSAGE_ERROR", message |-> message]]>>]
    ELSE [raised |-> FALSE, error |-> NoError, delivered |-> TRUE, logged |-> <<>>]

(***************************************************************************)
(* get_api_answer (lines 90-112).  net is what the network does:           *)
(*   net.get_raises  requests.get raises net.exc (a RequestException)      *)
(*   net.status_code the status of the response otherwise                  *)
(*   net.json        the result of response.json(): a value, or the        *)
(*                   exception it raises                                   *)
(***************************************************************************)
\* Variant: the request always asks from the beginning.
RequestParams_from_zero(ts) == [url |-> "ENDPOINT", headers |-> "HEADERS", from_date |-> 0]

RequestParams(ts) == [url |-> "ENDPOINT", headers |-> "HEADERS", from_date |-> ts]

\* Variant: a single clause, except Exception, wraps whatever the try block raised.
get_api_answer_catch_all(ts, net) ==
    LET try == IF net.get_raises
               THEN Raise(net.exc)
               ELSE IF net.status_code # HTTP_OK
                    THEN Raise(Exc("EndpointStatusError", {},
                                   [fmt |-> "ENDPOINT_STATUS_ERROR",
                                    status |-> net.status_code,
                                    params |-> RequestParams(ts)]))
                    ELSE net.json
    IN  IF ~try.raised
        THEN try
        ELSE Raise(Exc("RequestExceptionError", {},
                       [fmt |-> "REQUEST_EXCEPTION_ERROR", error |-> try.error.text]))

get_api_answer(ts, net) ==
    LET params == RequestParams(ts)
        try == IF net.get_raises
               THEN Raise(net.exc)
               ELSE IF net.status_code # HTTP_OK
                    THEN Raise(Exc("EndpointStatusError", {},
                                   [fmt |-> "ENDPOINT_STATUS_ERROR",
                                    status |-> net.status_code,
                                    params |-> params]))
                    ELSE net.json
    IN  IF ~try.raised
        THEN try
        ELSE IF IsInstance(try.error, "RequestException")
             THEN Raise(Exc("RequestExceptionError", {},
                            [fmt |-> "REQUEST_EXCEPTION_ERROR", error |-> try.error.text]))
             ELSE IF IsInstance(try.error, "json.JSONDecodeError")
                  THEN Raise(Exc("JSONDecodeError", {},
                                 [fmt |-> "JSON_DECODE_ERROR", error |-> try.error.text]))
                  ELSE try

(***************************************************************************)
(* check_response (lines 115-127)                                          *)
(***************************************************************************)
\* Variant: response['homeworks'], whose failure is the built-in KeyError.
check_response_subscript(response) ==
    IF ~IsDict(response)
    THEN Raise(Exc("TypeError", {}, [fmt |-> "RESPONSE_NOT_DICT"]))
    ELSE IF "homeworks" \notin DOMAIN response.dict
    THEN Raise(Exc("KeyError", {}, [fmt |-> "homeworks"]))
    ELSE IF ~IsList(response.dict.homeworks)
    THEN Raise(Exc("TypeError", {}, [fmt |-> "HOMEWORKS_VALUE_NOT_LIST"]))
    ELSE Ok(response.dict.homeworks)

check_response(response) ==
    IF ~IsDict(response)
    THEN Raise(Exc("TypeError", {}, [fmt |-> "RESPONSE_NOT_DICT"]))
    ELSE LET homeworks == DictGet(response, "homeworks", None)
         IN  IF homeworks = None
             THEN Raise(Exc("ResponseAPIKeyError", {}, [fmt |-> "RESPONSE_KEY_ERROR"]))
             ELSE IF ~IsList(homeworks)
                  THEN Raise(Exc("TypeError", {}, [fmt |-> "HOMEWORKS_VALUE_NOT_LIST"]))
                  ELSE Ok(homeworks)

(***************************************************************************)
(* check_response(response)[0] (line 158): the subscript of the list.      *)
(***************************************************************************)
\* Variant: next(iter(homeworks), None), which yields None for an empty list.
FirstElement_or_none(homeworks) ==
    IF Len(homeworks.list) = 0 THEN Ok(None) ELSE Ok(homeworks.list[1])

\* Variant: the subscript [-1].
FirstElement_last(homeworks) ==
    IF Len(homeworks.list) = 0
    THEN Raise(Exc("IndexError", {}, [fmt |-> "list index out of range"]))
    ELSE Ok(homeworks.list[Len(homeworks.list)])

FirstElement(homeworks) ==
    IF Len(homeworks.list) = 0
    THEN Raise(Exc("IndexError", {}, [fmt |-> "list index out of range"]))
    ELSE Ok(homeworks.list[1])

(***************************************************************************)
(* parse_status (lines 130-138).  Subscripting a value that is no dict,    *)
(* and looking up an unhashable status in HOMEWORK_VERDICTS, raise         *)
(* TypeError, which the except KeyError clause does not catch.             *)
(***************************************************************************)
KeyErrorOf(key) ==
    Exc("KeyError", {}, [fmt |-> "UNDEFINED_DICT_KEY_ERROR", key |-> key])

parse_status(homework) ==
    IF ~IsDict(homework)
    THEN Raise(Exc("TypeError", {}, [fmt |-> "indices must be integers"]))
    ELSE IF "homework_name" \notin DOMAIN homework.dict
    THEN Raise(KeyErrorOf("homework_name"))
    ELSE IF "status" \notin DOMAIN homework.dict
    THEN Raise(KeyErrorOf("status"))
    ELSE IF ~Hashable(homework.dict.status)
    THEN Raise(Exc("TypeError", {}, [fmt |-> "unhashable type"]))
    ELSE IF ~IsStr(homework.dict.status)
    THEN Raise(KeyErrorOf("not a string"))
    ELSE IF homework.dict.status.str \notin DOMAIN HOMEWORK_VERDICTS
    THEN Raise(KeyErrorOf(homework.dict.status.str))
    ELSE Ok([fmt |-> "STATUS_CHANGED",
             homework_name |-> homework.dict.homework_name,
             verdict |-> HOMEWORK_VERDICTS[homework.dict.status.str]])

\* f'... {error}' (line 169)
FailureMessage(e) == [fmt |-> "PROGRAM_FAILURE", error |-> e.text]

(***************************************************************************)
(* The environment: credential values, network outcomes, chat outcomes.    *)
(***************************************************************************)
CredValues == {None, [str |-> ""], [str |-> "token"]}

\* The status of a homework is a JSON value: a string, or here an array.
StatusValues ==
    {[str |-> st] : st \in {"approved", "reviewing", "rejected", "unknown"}}
    \cup {[list |-> <<>>]}

Homework(name, st) == [dict |-> [homework_name |-> name, status |-> st]]

\* The first element of a homeworks list: well formed, or malformed in each way.
HomeworkValues ==
    {Homework("hw1", st) : st \in StatusValues}
    \cup {Homework("hw2", [str |-> "approved"]),
          [dict |-> [status |-> [str |-> "approved"]]],
          [dict |-> [homework_name |-> "hw1"]],
          [str |-> "not a record"]}

\* The later elements of a homeworks list.
LaterValues == {Homework("hw2", [str |-> "rejected"]), [str |-> "not a record"]}

SeqsUpTo(S, n) == UNION {[1..k -> S] : k \in 0..n}

HomeworkLists ==
    {<<>>} \cup {<<h>> \o l : h \in HomeworkValues, l \in SeqsUpTo(LaterValues, MaxLen - 1)}

HomeworksValues ==
    {None, [str |-> "not a list"]} \cup {[list |-> l] : l \in HomeworkLists}

Dates == 1..MaxDate

JsonValues ==
    {[list |-> <<>>], [dict |-> [code |-> "not_authenticated"]]}
    \cup {[dict |-> [current_date |-> d]] : d \in Dates}
    \cup {[dict |-> [homeworks |-> h]] : h \in HomeworksValues}
    \cup {[dict |-> [homeworks |-> h, current_date |-> d]] :
              h \in HomeworksValues, d \in Dates}

\* What response.json() raises on a body that is no JSON: json.JSONDecodeError
\* (requests before 2.27), or requests.exceptions.JSONDecodeError, which is
\* both a RequestException and a json.JSONDecodeError (requests 2.27 and later).
JsonFailures ==
    {Exc("json.JSONDecodeError", {"ValueError"}, [fmt |-> "Expecting value"]),
     Exc("requests.JSONDecodeError",
         {"RequestException", "json.JSONDecodeError", "ValueError"},
         [fmt |-> "Expecting value"])}

StatusCodes == {200, 404}

NetOutcomes ==
    {[get_raises |-> TRUE,
      exc |-> Exc("ConnectionError", {"RequestException"}, [fmt |-> "connection failed"]),
      status_code |-> 0, json |-> Raise(NoError)]}
    \cup {[get_raises |-> FALSE, exc |-> NoError, status_code |-> c,
           json |-> Raise(NoError)] : c \in StatusCodes \ {HTTP_OK}}
    \cup {[get_raises |-> FALSE, exc |-> NoError, status_code |-> HTTP_OK,
           json |-> Raise(e)] : e \in JsonFailures}
    \cup {[get_raises |-> FALSE, exc |-> NoError, status_code |-> HTTP_OK,
           json |-> Ok(v)] : v \in JsonValues}

ChatOutcomes == {"ok", "TelegramError"}

(***************************************************************************)
(* The trace of one loop iteration: what it requested, formatted, passed   *)
(* to the notifier, logged at error level and slept, and the cursor and    *)
(* last notified message it began with.                                    *)
(***************************************************************************)
NoNet == [get_raises |-> FALSE, status_code |-> 0, body |-> "none", shape |-> "none"]

\* The shape of a decoded body, as far as check_response and the subscript
\* of line 158 look at it.
Shape(v) ==
    IF ~IsDict(v) THEN "not a dict"
    ELSE IF "homeworks" \notin DOMAIN v.dict THEN "no homeworks"
    ELSE IF v.dict.homeworks = None THEN "homeworks null"
    ELSE IF ~IsList(v.dict.homeworks) THEN "homeworks not a list"
    ELSE IF v.dict.homeworks.list = <<>> THEN "homeworks empty"
    ELSE "homeworks"

\* What the network did, without the value of the body.
NetTrace(net) ==
    [get_raises |-> net.get_raises, status_code |-> net.status_code,
     body |-> IF net.get_raises \/ net.status_code # HTTP_OK THEN "unread"
              ELSE IF net.json.raised THEN net.json.error.cls ELSE "json",
     shape |-> IF net.get_raises \/ net.status_code # HTTP_OK \/ net.json.raised
               THEN "none" ELSE Shape(net.json.value)]

NewCycle(ts, old) ==
    [net |-> NoNet, requests |-> <<>>, formatted |-> <<>>, notified |-> <<>>,
     logged |-> <<>>, slept |-> <<>>, ts0 |-> ts, old0 |-> old, caught |-> NoError,
     cursor_set |-> <<>>]

\* What is kept of the iteration before the current one.
Summary(c) ==
    [formatted |-> c.formatted,
     notified |-> [i \in DOMAIN c.notified |->
                      [text |-> c.notified[i].text, delivered |-> c.notified[i].delivered]],
     cursor_set |-> c.cursor_set,
     caught |-> c.caught.cls]

\* The current_date values of a response: one if the key is present, else none.
CurrentDate(response) ==
    IF "current_date" \in DOMAIN response.dict THEN <<response.dict.current_date>> ELSE <<>>

\* One call of bot.send_message: its text, whether the chat got it, and the
\* text of the call before it.
Notified(message, sent) ==
    [text |-> message, delivered |-> sent.delivered, after |-> last_sent.text]

LastSent(message, sent) == [text |-> message, delivered |-> sent.delivered]

\* The history after one more call, in a run that keeps it.
Recorded(message) ==
    IF history.on THEN [history EXCEPT !.texts = Append(@, message)] ELSE history

ErrorEntry(text) == [level |-> "error", text |-> text]

(***************************************************************************)
(* Init: the module has been imported, main has not begun.                 *)
(***************************************************************************)
Configured == [name \in Range(TokenNames) |-> [str |-> "token"]]

NoCall == [fn |-> "none", arg |-> None, result |-> Raise(NoError)]

InitWith(envs, n, keep) ==
    /\ env \in envs
    /\ call = NoCall
    /\ limit = n
    /\ history = [on |-> keep, texts |-> <<>>]
    /\ pc = "check_tokens"
    /\ bot = FALSE
    /\ timestamp = 0
    /\ old_status = None
    /\ error = NoError
    /\ cycle = 0
    /\ critical = {}
    /\ cur = NewCycle(0, None)
    /\ prev = Summary(NewCycle(0, None))
    /\ last_sent = [text |-> None, delivered |-> FALSE]

\* The poll loop of a configured process.
Init == InitWith({Configured}, MaxCycles, FALSE)

\* The poll loop of a configured process, keeping the history of the calls.
InitHistory == InitWith({Configured}, MaxCycles, TRUE)

\* Startup under every environment.
InitStartup == InitWith([Range(TokenNames) -> CredValues], MaxStartupCycles, FALSE)

(***************************************************************************)
(* main, lines 143-149: the credential check.                              *)
(***************************************************************************)
CheckTokens ==
    /\ pc = "check_tokens"
    /\ LET token_names == check_tokens(env)
       IN  /\ critical' = Range(token_names)
           /\ pc' = IF token_names # <<>> THEN "GlobalTokensError" ELSE "create_bot"
    /\ UNCHANGED <<env, bot, timestamp, old_status, error, cycle, limit, cur, prev,
                   last_sent, history, call>>

(***************************************************************************)
(* main, lines 151-153.                                                    *)
(***************************************************************************)
CreateBot ==
    /\ pc = "create_bot"
    /\ IF BotConstructorRaises(env["TELEGRAM_TOKEN"])
       THEN /\ pc' = "InvalidToken"
            /\ UNCHANGED <<bot, timestamp, old_status>>
       ELSE /\ pc' = "loop"
            /\ bot' = TRUE
            /\ timestamp' = 0
            /\ old_status' = None
    /\ UNCHANGED <<env, error, cycle, limit, critical, cur, prev, last_sent, history,
                   call>>

(***************************************************************************)
(* main, lines 156-165: the try body of one iteration.                     *)
(***************************************************************************)
\* Lines 157-159: the message of the iteration, or the exception raised.
FormatCycle(ts, net) ==
    LET Then(r, F(_)) == IF r.raised THEN r ELSE F(r.value)
    IN  Then(Then(Then(get_api_answer(ts, net), check_response), FirstElement), parse_status)

\* Variants: the comparison with old_status is dropped, or is always false.
ShouldNotify_always(old, message) == TRUE
ShouldNotify_never(old, message) == FALSE

\* Lines 161-163: the notifier is called if the message differs from old_status.
ShouldNotify(old, message) == old # message

\* Variant: response.get('current_date', 0).
NextTimestamp_default_zero(response, ts) == DictGet(response, "current_date", 0)

\* Line 165.
NextTimestamp(response, ts) == DictGet(response, "current_date", ts)

TryBody(net) ==
    /\ pc = "loop"
    /\ cycle < limit
    /\ cycle' = cycle + 1
    /\ prev' = Summary(cur)
    /\ \E response \in {get_api_answer(timestamp, net)},
          message \in {FormatCycle(timestamp, net)} :
       \E c0 \in {[NewCycle(timestamp, old_status)
                      EXCEPT !.net = NetTrace(net),
                             !.requests = <<RequestParams(timestamp).from_date>>,
                             !.formatted = IF message.raised THEN <<>>
                                           ELSE <<message.value>>]} :
          IF message.raised
          THEN /\ error' = message.error
               /\ pc' = "except"
               /\ cur' = c0
               /\ UNCHANGED <<timestamp, old_status, last_sent, history>>
          ELSE IF ShouldNotify(old_status, message.value)
          THEN \E sent \in {send_message(message.value, tg) : tg \in ChatOutcomes} :
               \E c1 \in {[c0 EXCEPT !.notified = <<Notified(message.value, sent)>>,
                                     !.logged = sent.logged]} :
               /\ last_sent' = LastSent(message.value, sent)
               /\ history' = Recorded(message.value)
               /\ IF sent.raised
                  THEN /\ error' = sent.error
                       /\ pc' = "except"
                       /\ cur' = c1
                       /\ UNCHANGED <<timestamp, old_status>>
                  ELSE /\ old_status' = message.value
                       /\ timestamp' = NextTimestamp(response.value, timestamp)
                       /\ cur' = [c1 EXCEPT !.cursor_set = CurrentDate(response.value)]
                       /\ error' = NoError
                       /\ pc' = "finally"
          ELSE /\ old_status' = old_status
               /\ UNCHANGED <<last_sent, history>>
               /\ timestamp' = NextTimestamp(response.value, timestamp)
               /\ cur' = [c0 EXCEPT !.cursor_set = CurrentDate(response.value)]
               /\ error' = NoError
               /\ pc' = "finally"
    /\ UNCHANGED <<env, bot, limit, critical, call>>

(***************************************************************************)
(* main, lines 166-167: except ResponseAPIKeyError.                        *)
(***************************************************************************)
ExceptResponseAPIKeyError ==
    /\ pc = "except"
    /\ IsInstance(error, "ResponseAPIKeyError")
    /\ cur' = [cur EXCEPT
                 !.caught = error,
                 !.logged = Append(@, ErrorEntry([fmt |-> "RESPONSE_KEY_ERROR_WITH_INFO",
                                                  error |-> error.text]))]
    /\ error' = NoError
    /\ pc' = "finally"
    /\ UNCHANGED <<env, bot, limit, timestamp, old_status, cycle, critical, prev,
                   last_sent, history, call>>

(***************************************************************************)
(* main, lines 168-173: except Exception.  An exception raised inside the  *)
(* handler leaves the loop once the finally clause has run.                *)
(***************************************************************************)
\* Variant: old_status keeps the cause, not the composed message.
ExceptException_stores_cause ==
    /\ pc = "except"
    /\ ~IsInstance(error, "ResponseAPIKeyError")
    /\ IsInstance(error, "Exception")
    /\ \E message \in {FailureMessage(error)} :
       \E c1 \in {[cur EXCEPT !.caught = error,
                              !.logged = Append(@, ErrorEntry(message))]} :
          IF ShouldNotify(old_status, message)
          THEN \E sent \in {send_message(message, tg) : tg \in ChatOutcomes} :
               /\ old_status' = [fmt |-> "CAUSE", error |-> error.text]
               /\ cur' = [c1 EXCEPT !.notified = Append(@, Notified(message, sent)),
                                    !.logged = @ \o sent.logged]
               /\ last_sent' = LastSent(message, sent)
               /\ history' = Recorded(message)
               /\ error' = IF sent.raised THEN sent.error ELSE NoError
          ELSE /\ old_status' = old_status
               /\ cur' = c1
               /\ UNCHANGED <<last_sent, history>>
               /\ error' = NoError
    /\ pc' = "finally"
    /\ UNCHANGED <<env, bot, limit, timestamp, cycle, critical, prev, call>>

\* Variant: the alert is sent but old_status is left to the status messages.
ExceptException_keeps_old_status ==
    /\ pc = "except"
    /\ ~IsInstance(error, "ResponseAPIKeyError")
    /\ IsInstance(error, "Exception")
    /\ \E message \in {FailureMessage(error)} :
       \E c1 \in {[cur EXCEPT !.caught = error,
                              !.logged = Append(@, ErrorEntry(message))]} :
          IF ShouldNotify(old_status, message)
          THEN \E sent \in {send_message(message, tg) : tg \in ChatOutcomes} :
               /\ old_status' = old_status
               /\ cur' = [c1 EXCEPT !.notified = Append(@, Notified(message, sent)),
                                    !.logged = @ \o sent.logged]
               /\ last_sent' = LastSent(message, sent)
               /\ history' = Recorded(message)
               /\ error' = IF sent.raised THEN sent.error ELSE NoError
          ELSE /\ old_status' = old_status
               /\ cur' = c1
               /\ UNCHANGED <<last_sent, history>>
               /\ error' = NoError
    /\ pc' = "finally"
    /\ UNCHANGED <<env, bot, limit, timestamp, cycle, critical, prev, call>>

ExceptException ==
    /\ pc = "except"
    /\ ~IsInstance(error, "ResponseAPIKeyError")
    /\ IsInstance(error, "Exception")
    /\ \E message \in {FailureMessage(error)} :
       \E c1 \in {[cur EXCEPT !.caught = error,
                              !.logged = Append(@, ErrorEntry(message))]} :
          IF ShouldNotify(old_status, message)
          THEN \E sent \in {send_message(message, tg) : tg \in ChatOutcomes} :
               /\ old_status' = message
               /\ cur' = [c1 EXCEPT !.notified = Append(@, Notified(message, sent)),
                                    !.logged = @ \o sent.logged]
               /\ last_sent' = LastSent(message, sent)
               /\ history' = Recorded(message)
               /\ error' = IF sent.raised THEN sent.error ELSE NoError
          ELSE /\ old_status' = old_status
               /\ cur' = c1
               /\ UNCHANGED <<last_sent, history>>
               /\ error' = NoError
    /\ pc' = "finally"
    /\ UNCHANGED <<env, bot, limit, timestamp, cycle, critical, prev, call>>

(***************************************************************************)
(* main, lines 174-175: finally, time.sleep(RETRY_PERIOD); then the next   *)
(* iteration, or out of main with the exception still in flight.           *)
(***************************************************************************)
\* Variant: the sleep is the last statement of the try body, not a finally clause.
Finally_sleep_in_try ==
    /\ pc = "finally"
    /\ cur' = IF cur.caught = NoError
              THEN [cur EXCEPT !.slept = Append(@, RETRY_PERIOD)]
              ELSE cur
    /\ pc' = IF error # NoError THEN "raised" ELSE "loop"
    /\ UNCHANGED <<env, bot, limit, timestamp, old_status, error, cycle, critical, prev,
                   last_sent, history, call>>

Finally ==
    /\ pc = "finally"
    /\ cur' = [cur EXCEPT !.slept = Append(@, RETRY_PERIOD)]
    /\ pc' = IF error # NoError THEN "raised" ELSE "loop"
    /\ UNCHANGED <<env, bot, limit, timestamp, old_status, error, cycle, critical, prev,
                   last_sent, history, call>>

Next ==
    \/ CheckTokens
    \/ CreateBot
    \/ \E net \in NetOutcomes : TryBody(net)
    \/ ExceptResponseAPIKeyError
    \/ ExceptException
    \/ Finally

Spec == Init /\ [][Next]_vars

SpecStartup == InitStartup /\ [][Next]_vars

\* The responses without current_date whose homeworks, if a list, has at most
\* one element, with the failures of the network.
HistoryOutcomes ==
    {net \in NetOutcomes :
        net.json.raised
        \/ /\ IsDict(net.json.value)
           /\ "current_date" \notin DOMAIN net.json.value.dict
           /\ Shape(net.json.value) = "homeworks"
                 => Len(net.json.value.dict.homeworks.list) = 1}

NextHistory ==
    \/ CheckTokens
    \/ CreateBot
    \/ \E net \in HistoryOutcomes : TryBody(net)
    \/ ExceptResponseAPIKeyError
    \/ ExceptException
    \/ Finally

SpecHistory == InitHistory /\ [][NextHistory]_vars

(***************************************************************************)
(* The functions applied on their own, to every value of their argument.   *)
(***************************************************************************)
\* Decoded bodies whose homeworks list takes every element at every place.
CallResponses ==
    JsonValues
    \cup {[dict |-> [homeworks |-> [list |-> l], current_date |-> 1]] :
              l \in SeqsUpTo(HomeworkValues \cup LaterValues, MaxLen)}

InitCalls == InitWith({Configured}, 0, FALSE)

\* A call of a function on its own: the argument and what came back.
Called(fn, arg, result) == [fn |-> fn, arg |-> arg, result |-> result]

CallCheckResponse(response) ==
    /\ pc = "check_tokens"
    /\ call' = Called("check_response", response, check_response(response))
    /\ UNCHANGED <<env, pc, bot, timestamp, old_status, error, cycle, limit, critical,
                   cur, prev, last_sent, history>>

CallParseStatus(homework) ==
    /\ pc = "check_tokens"
    /\ call' = Called("parse_status", homework, parse_status(homework))
    /\ UNCHANGED <<env, pc, bot, timestamp, old_status, error, cycle, limit, critical,
                   cur, prev, last_sent, history>>

\* Lines 157-159 on a response with status OK and the body decoded to response.
CallFormatCycle(response) ==
    /\ pc = "check_tokens"
    /\ call' = Called("format", response,
                      FormatCycle(0, [get_raises |-> FALSE, exc |-> NoError,
                                      status_code |-> HTTP_OK, json |-> Ok(response)]))
    /\ UNCHANGED <<env, pc, bot, timestamp, old_status, error, cycle, limit, critical,
                   cur, prev, last_sent, history>>

NextCalls ==
    \/ \E response \in CallResponses : CallCheckResponse(response)
    \/ \E homework \in HomeworkValues \cup LaterValues : CallParseStatus(homework)
    \/ \E response \in CallResponses : CallFormatCycle(response)

SpecCalls == InitCalls /\ [][NextCalls]_vars

(***************************************************************************)
(* Properties                                                              *)
(***************************************************************************)
InLoop == pc \in {"loop", "except", "finally", "raised"}

\* cur and prev are two consecutive iterations that both formatted a message.
BothFormatted == cycle >= 2 /\ prev.formatted # <<>> /\ cur.formatted # <<>>

Texts(notified) == [i \in DOMAIN notified |-> notified[i].text]

\* The iteration of cur raised in its try body.
CycleRaised == pc = "except" \/ cur.caught # NoError

\* The exception the try body of the iteration of cur raised.
CycleError == IF pc = "except" THEN error ELSE cur.caught

\* C1: two consecutive iterations that format the same status message invoke
\* the notifier at most once between them, and the second does not invoke it.
C1_NoDuplicateNotification ==
    (BothFormatted /\ prev.formatted = cur.formatted)
        => /\ cur.notified = <<>>
           /\ Len(prev.notified) + Len(cur.notified) <= 1

C1_Witness ==
    /\ BothFormatted
    /\ prev.formatted = cur.formatted
    /\ Texts(prev.notified) = prev.formatted
    /\ pc = "loop"

\* C2 as stated: two consecutive iterations that format different status
\* messages each invoke the notifier with their own message.
C2_BothNotified ==
    (BothFormatted /\ prev.formatted # cur.formatted)
        => /\ Texts(prev.notified) = prev.formatted
           /\ Texts(cur.notified) = cur.formatted

\* C2 amended: of two consecutive iterations that format different status
\* messages, the second invokes the notifier with its message; and every
\* iteration that formats a message invokes the notifier, once and with that
\* message, exactly if the message differs from old_status at its start.
C2_ChangeNotified ==
    /\ (BothFormatted /\ prev.formatted # cur.formatted)
           => Texts(cur.notified) = cur.formatted
    /\ (cycle >= 1 /\ cur.formatted # <<>>)
           => Texts(cur.notified) =
                 IF cur.formatted[1] # cur.old0 THEN cur.formatted ELSE <<>>

C2_Witness ==
    /\ BothFormatted
    /\ prev.formatted # cur.formatted
    /\ prev.notified = <<>>
    /\ Texts(cur.notified) = cur.formatted
    /\ pc = "loop"

\* C3: the first request asks from_date = 0, and a request that follows an
\* iteration which set the cursor from current_date = d asks from_date = d.
C3_CursorRoundTrip ==
    /\ cycle = 1 => cur.requests = <<0>>
    /\ (cycle >= 2 /\ prev.cursor_set # <<>>) => cur.requests = prev.cursor_set

C3_Witness ==
    /\ cycle >= 2
    /\ prev.cursor_set = <<MaxDate>>
    /\ cur.requests = <<MaxDate>>
    /\ cur.ts0 = MaxDate

\* C4: an iteration whose try body raises, and a successful iteration whose
\* response has no current_date, leave the cursor as it was.
C4_CursorFrame ==
    (cycle >= 1 /\ (CycleRaised \/ cur.cursor_set = <<>>)) => timestamp = cur.ts0

C4_Witness ==
    /\ cycle >= 2
    /\ cur.formatted # <<>>
    /\ cur.cursor_set = <<>>
    /\ cur.ts0 # 0
    /\ timestamp = cur.ts0
    /\ pc = "loop"

Missing == {name \in Range(TokenNames) : env[name] = None}

\* C5: with any credential missing, main ends with GlobalTokensError after a
\* critical entry for each missing name, and before the bot is created, a
\* request is made or a message is sent.
C5_MissingCredentialFatal ==
    Missing # {}
        => /\ pc \in {"check_tokens", "GlobalTokensError"}
           /\ pc = "GlobalTokensError" => critical = Missing
           /\ ~bot
           /\ cycle = 0
           /\ cur.requests = <<>>
           /\ cur.notified = <<>>

C5_Witness ==
    /\ pc = "GlobalTokensError"
    /\ Cardinality(Missing) = 2
    /\ critical = Missing

\* C6: while the poll loop runs, every credential is a non-empty string.
C6_CredentialsNonEmpty ==
    InLoop => \A name \in Range(TokenNames) : env[name] \notin {None, [str |-> ""]}

\* C7: after the credential check no exception leaves main: an exception
\* out of the try body is one a handler catches, none is in flight when the
\* finally clause runs, and the loop is not left.
C7_NoErrorLeavesMain ==
    /\ pc # "raised"
    /\ pc = "except" => IsInstance(error, "Exception")
    /\ pc = "finally" => error = NoError
    /\ bot => pc \in {"loop", "except", "finally"}

C7_Witness ==
    /\ pc = "loop"
    /\ cycle >= 1
    /\ cur.caught # NoError
    /\ Len(cur.notified) = 1
    /\ ~cur.notified[1].delivered

\* C8: every iteration, whatever its outcome, ends with exactly one sleep
\* of 600 seconds, so exactly one sleep lies between two requests.
C8_OneSleepPerCycle ==
    /\ (pc = "loop" /\ cycle >= 1) => cur.slept = <<600>>
    /\ pc \in {"except", "finally"} => cur.slept = <<>>

C8_Witness ==
    /\ pc = "loop"
    /\ cycle >= 2
    /\ cur.caught # NoError
    /\ cur.slept = <<600>>

\* The network answered the iteration of cur with a status that is not OK.
BadStatus == cycle >= 1 /\ ~cur.net.get_raises /\ cur.net.status_code # 200

\* C9: on a status that is not OK the iteration raises EndpointStatusError,
\* logs the failure at error level, and the loop goes on after the sleep.
C9_BadStatus ==
    BadStatus
        => /\ CycleError.cls = "EndpointStatusError"
           /\ pc \in {"loop", "except", "finally"}
           /\ pc \in {"loop", "finally"}
                 => \E i \in DOMAIN cur.logged :
                       cur.logged[i] = ErrorEntry(FailureMessage(cur.caught))
           /\ pc = "loop" => cur.slept = <<600>>

C9_Witness ==
    /\ BadStatus
    /\ cur.net.status_code = 404
    /\ pc = "loop"
    /\ cur.caught.cls = "EndpointStatusError"
    /\ cur.caught.text.status = 404

\* C10: a body that is no JSON makes the iteration fail with JSONDecodeError,
\* and a failed transport makes it fail with RequestExceptionError.
C10_DecodeErrorDistinct ==
    cycle >= 1
        => /\ (cur.net.body \notin {"unread", "json"})
                 => CycleError.cls = "JSONDecodeError"
           /\ cur.net.get_raises => CycleError.cls = "RequestExceptionError"

\* The handlers of the iteration of cur have run.
Done == cycle >= 1 /\ pc \in {"finally", "loop"}

\* The iteration of cur was caught by except Exception.
Failed == Done /\ cur.caught.cls \notin {"NoError", "ResponseAPIKeyError"}

\* The failure message of the iteration of cur.
Alert == [fmt |-> "PROGRAM_FAILURE", error |-> cur.caught.text]

Logged(text) == \E i \in DOMAIN cur.logged : cur.logged[i] = [level |-> "error", text |-> text]

\* C11: an iteration that raises anything but ResponseAPIKeyError logs the
\* failure message at error level and invokes the notifier with it exactly if
\* it differs from old_status, so a repeated failure is logged but not sent.
C11_FailureAlert ==
    Failed
        => /\ Logged(Alert)
           /\ Texts(cur.notified) = IF Alert # cur.old0 THEN <<Alert>> ELSE <<>>

C11_Witness ==
    /\ Failed
    /\ cycle >= 2
    /\ prev.caught = cur.caught.cls
    /\ Len(prev.notified) = 1
    /\ prev.notified[1].text = Alert
    /\ cur.notified = <<>>
    /\ Logged(Alert)
    /\ pc = "loop"

\* C12: an iteration whose response is a mapping without the homeworks key
\* logs the error and nothing else: no notifier call, old_status and the
\* cursor as they were.
C12_MissingKeyLogOnly ==
    (cycle >= 1 /\ cur.net.shape = "no homeworks")
        => /\ cur.notified = <<>>
           /\ old_status = cur.old0
           /\ timestamp = cur.ts0
           /\ Done => cur.logged =
                         <<[level |-> "error",
                            text |-> [fmt |-> "RESPONSE_KEY_ERROR_WITH_INFO",
                                      error |-> [fmt |-> "RESPONSE_KEY_ERROR"]]]>>

C12_Witness ==
    /\ cycle >= 2
    /\ cur.net.shape = "no homeworks"
    /\ cur.old0 # None
    /\ cur.ts0 # 0
    /\ cur.logged # <<>>
    /\ pc = "loop"

\* C13 as stated: old_status is set only to a text whose send succeeded.
C13_SetOnlyAfterDelivery ==
    (cycle >= 1 /\ old_status # cur.old0)
        => \E i \in DOMAIN cur.notified :
              cur.notified[i].text = old_status /\ cur.notified[i].delivered

\* C13 amended: old_status is None until an iteration changes it, and an
\* iteration changes it only to a text with which it invoked the notifier,
\* whether or not the chat got the text.
C13_SetOnlyToNotified ==
    /\ cycle = 0 => old_status = None
    /\ (cycle >= 1 /\ old_status # cur.old0)
          => \E i \in DOMAIN cur.notified : cur.notified[i].text = old_status

C13_Witness ==
    /\ cycle >= 1
    /\ old_status # cur.old0
    /\ Len(cur.notified) = 1
    /\ cur.notified[1].text = old_status
    /\ ~cur.notified[1].delivered
    /\ pc = "loop"

\* C14: on an empty homeworks list the subscript raises IndexError; no status
\* message is formatted or sent, the cursor stays, the failure is logged and
\* the loop goes on after the sleep.
C14_EmptyList ==
    (cycle >= 1 /\ cur.net.shape = "homeworks empty")
        => /\ CycleError.cls = "IndexError"
           /\ cur.formatted = <<>>
           /\ \A i \in DOMAIN cur.notified : cur.notified[i].text.fmt # "STATUS_CHANGED"
           /\ timestamp = cur.ts0
           /\ pc \in {"except", "finally", "loop"}
           /\ Done => Logged(Alert)
           /\ pc = "loop" => cur.slept = <<600>>

C14_Witness ==
    /\ cycle >= 2
    /\ cur.net.shape = "homeworks empty"
    /\ cur.caught.cls = "IndexError"
    /\ cur.ts0 # 0
    /\ Len(cur.notified) = 1
    /\ pc = "loop"

Recognized == {"approved", "reviewing", "rejected"}

\* A record with both keys and a status among the three verdicts.
WellFormed(homework) ==
    /\ IsDict(homework)
    /\ {"homework_name", "status"} \subseteq DOMAIN homework.dict
    /\ IsStr(homework.dict.status)
    /\ homework.dict.status.str \in Recognized

Sentence(homework) ==
    [fmt |-> "STATUS_CHANGED",
     homework_name |-> homework.dict.homework_name,
     verdict |-> HOMEWORK_VERDICTS[homework.dict.status.str]]

\* C15: parse_status of a record returns the whole sentence, or raises
\* KeyError when a key is absent or the status is not one of the three.
C15_SentenceOrKeyError ==
    (call.fn = "parse_status" /\ IsDict(call.arg))
        => IF WellFormed(call.arg)
           THEN call.result = Ok(Sentence(call.arg))
           ELSE call.result.raised /\ call.result.error.cls = "KeyError"

\* C16: check_response raises TypeError for a response that is no mapping,
\* ResponseAPIKeyError for a mapping without homeworks, TypeError for a
\* homeworks value that is no list, and returns the list otherwise.
C16_Classification ==
    call.fn = "check_response"
        => IF ~IsDict(call.arg)
           THEN call.result.raised /\ call.result.error.cls = "TypeError"
           ELSE IF "homeworks" \notin DOMAIN call.arg.dict
           THEN call.result.raised /\ call.result.error.cls = "ResponseAPIKeyError"
           ELSE IF ~IsList(call.arg.dict.homeworks)
           THEN call.result.raised /\ call.result.error.cls = "TypeError"
           ELSE call.result = Ok(call.arg.dict.homeworks)

\* C17: the message of an iteration is the sentence of the first element of
\* homeworks, whatever the later elements are.
C17_FirstElementFormatted ==
    (/\ call.fn = "format"
     /\ Shape(call.arg) = "homeworks"
     /\ WellFormed(call.arg.dict.homeworks.list[1]))
        => call.result = Ok(Sentence(call.arg.dict.homeworks.list[1]))

C17_Witness ==
    /\ call.fn = "format"
    /\ Shape(call.arg) = "homeworks"
    /\ call.arg.dict.homeworks.list =
          <<Homework("hw1", [str |-> "approved"]), Homework("hw2", [str |-> "rejected"])>>
    /\ ~call.result.raised
    /\ call.result.value.homework_name = "hw1"
    /\ call.result.value.verdict = HOMEWORK_VERDICTS.approved

\* C18: no call of the notifier carries the text of the call before it, an
\* iteration calls it at most once, and between iterations old_status is the
\* text of the most recent call (None if there was none).
C18_NotifierDiscipline ==
    /\ \A i \in DOMAIN cur.notified : cur.notified[i].text # cur.notified[i].after
    /\ Len(cur.notified) <= 1
    /\ pc = "loop" => old_status = last_sent.text

C18_Witness ==
    /\ pc = "loop"
    /\ cycle >= 2
    /\ Len(cur.notified) = 1
    /\ cur.notified[1].after # None
    /\ old_status = cur.notified[1].text
    /\ last_sent.text = old_status

\* The message the iteration of cur produced: the status message, or the
\* failure message of except Exception.
Produced ==
    IF cur.formatted # <<>> THEN cur.formatted
    ELSE IF Failed THEN <<Alert>> ELSE <<>>

\* C19: a text whose send failed still becomes old_status; an iteration that
\* produces the text old_status already holds does not call the notifier, so
\* after a failed send the same text is not sent again and stays undelivered;
\* a text is sent only when old_status held a different one.
C19_NoRetry ==
    /\ (Done /\ cur.notified # <<>> /\ ~cur.notified[1].delivered)
          => old_status = cur.notified[1].text
    /\ (Done /\ Produced = <<cur.old0>>) => cur.notified = <<>>
    /\ (/\ Done
        /\ cycle >= 2
        /\ prev.notified # <<>>
        /\ ~prev.notified[1].delivered
        /\ Produced = <<prev.notified[1].text>>)
          => /\ cur.notified = <<>>
             /\ last_sent = [text |-> prev.notified[1].text, delivered |-> FALSE]
    /\ (Done /\ cur.notified # <<>>) => cur.notified[1].text # cur.old0

C19_Witness ==
    /\ pc = "loop"
    /\ cycle >= 2
    /\ cur.formatted # <<>>
    /\ prev.notified = <<[text |-> cur.formatted[1], delivered |-> FALSE]>>
    /\ cur.notified = <<>>
    /\ last_sent = [text |-> cur.formatted[1], delivered |-> FALSE]

\* C20: a status message that follows an alerted failure is sent, also when
\* it is the message sent before the failure; one that follows an iteration
\* with the missing key is not sent again.
C20_SharedSlot ==
    LET h == history.texts
        n == Len(h)
    IN  /\ (/\ Done
            /\ cycle >= 2
            /\ cur.formatted # <<>>
            /\ prev.caught \notin {"NoError", "ResponseAPIKeyError"}
            /\ prev.notified # <<>>)
              => /\ Texts(cur.notified) = cur.formatted
                 /\ n >= 2
                 /\ h[n] = cur.formatted[1]
                 /\ h[n - 1] = prev.notified[1].text
                 /\ h[n - 1].fmt = "PROGRAM_FAILURE"
        /\ (/\ Done
            /\ cycle >= 2
            /\ cur.formatted = <<cur.old0>>
            /\ prev.caught = "ResponseAPIKeyError")
              => /\ cur.notified = <<>>
                 /\ n >= 1
                 /\ h[n] = cur.formatted[1]
                 /\ n >= 2 => h[n - 1] # h[n]

C20_Witness ==
    /\ pc = "loop"
    /\ cycle = 3
    /\ Len(history.texts) = 3
    /\ cur.formatted = <<history.texts[3]>>
    /\ history.texts[1] = history.texts[3]
    /\ history.texts[2].fmt = "PROGRAM_FAILURE"
    /\ prev.caught \notin {"NoError", "ResponseAPIKeyError"}

====
